---- MODULE Spec2Model ----
(***************************************************************************)
(* Model of .github/scripts/monitor_news.py: the news monitor's main loop  *)
(* (feeds -> entries -> article text -> LLM extraction -> duplicate check  *)
(* -> pull request) and the is_duplicate classifier on its own.            *)
(*                                                                         *)
(* A source citation {url, name} is represented by its url (its key); an   *)
(* incident is the record of the fields the code reads and writes.         *)
(***************************************************************************)
EXTENDS Integers, Sequences, FiniteSets, TLC

\* ---------------------------------------------------------------- bounds
MaxLedger == 2      \* records in the ledger file at process start
MaxSources == 2     \* source citations of one record of the ledger file
MaxEntries == 2     \* entries of one feed
MaxRuns == 2        \* consecutive runs of the script
NumFeeds == 2       \* monitored feeds (len(SOURCES), reduced)

URLs == {"u1", "u2", "u3"}
Dates == {"2025-01-01", "2025-01-02"}
Locations == {"Hasselbachplatz", "Neustadt"}
Descriptions == {"desc"}
Types == {"physical_attack"}

\* ---------------------------------------------------------------- data
Range(s) == {s[i] : i \in DOMAIN s}

SeqsUpTo(S, n) == UNION {[1..k -> S] : k \in 0..n}

NoRepeat(s) == \A i, j \in DOMAIN s : i # j => s[i] # s[j]

\* an incident record as the LLM prompt asks for it (status is never read)
Incident(d, l, ds, t, srcs) ==
  [date |-> d, location |-> l, description |-> ds, type |-> t, sources |-> srcs]

\* {source['url'] for source in incident['sources']}
UrlsOf(incident) == Range(incident.sources)

\* "no two records in the Ledger share a Source Citation URL"
NoSharedURL(incidents) ==
  \A i, j \in DOMAIN incidents :
    i # j => UrlsOf(incidents[i]) \cap UrlsOf(incidents[j]) = {}

\* the records data/incidents.json may hold: at least one source each
LedgerRecords ==
  {Incident(d, l, ds, t, s) :
     d \in Dates, l \in Locations, ds \in Descriptions, t \in Types,
     s \in {q \in SeqsUpTo(URLs, MaxSources) : q # <<>> /\ NoRepeat(q)}}

\* the ledgers the file may hold at process start
Ledgers ==
  {l \in SeqsUpTo(LedgerRecords, MaxLedger) : NoSharedURL(l)}

\* ---------------------------------------------------------------- oracles
\* what requests.get + BeautifulSoup can do for one article
FetchOutcomes == {"http_error", "no_container", "text"}

\* extract_text_from_article: the text, or None (<<>>) on any failure
ExtractTextFromArticle(outcome) ==
  IF outcome = "text" THEN <<"article text">> ELSE <<>>

\* the sources array the extraction model puts into its JSON answer
LLMSources == SeqsUpTo(URLs, 1)

NoObject == Incident("", "", "", "", <<>>)

\* what the extraction model call can produce
ExtractAnswers ==
  {[kind |-> k, obj |-> NoObject] : k \in {"api_error", "null", "malformed"}}
  \cup
  {[kind |-> "json", obj |-> Incident(d, l, ds, t, s)] :
     d \in Dates, l \in Locations, ds \in Descriptions, t \in Types,
     s \in LLMSources}

\* parse_with_llm: the API call is outside the try, the parsing inside it
ParseWithLLM(answer, url) ==
  CASE answer.kind = "api_error" -> [raised |-> TRUE, incident |-> <<>>]
    [] answer.kind = "null" -> [raised |-> FALSE, incident |-> <<>>]
    [] answer.kind = "malformed" -> [raised |-> FALSE, incident |-> <<>>]
    [] OTHER ->
         [raised |-> FALSE,
          incident |->
            <<IF url \in Range(answer.obj.sources)
                THEN answer.obj
                ELSE [answer.obj EXCEPT !.sources = Append(@, url)]>>]

\* every incident parse_with_llm can return
Candidates ==
  {ParseWithLLM(a, u).incident[1] :
     a \in {x \in ExtractAnswers : x.kind = "json"}, u \in URLs}

\* replies of the comparison model call; "API_ERROR" is the call raising
Responses == {"true", " True\n", "false", "API_ERROR"}

\* response.choices[0].message.content.strip().lower()
StripLower(r) ==
  CASE r = " True\n" -> "true"
    [] OTHER -> r

\* existing['sources'].extend(s for s in new['sources'] if s['url'] not in existing_urls)
MergeSources(existing, new_incident) ==
  [existing EXCEPT
     !.sources = @ \o SelectSeq(new_incident.sources,
                                LAMBDA u : u \notin UrlsOf(existing))]

\* is_duplicate with the URL check made only against the same-date records
IsDuplicate_SameDateOnly(new_incident, existing_incidents, response) ==
  LET same_date == {i \in DOMAIN existing_incidents :
                      existing_incidents[i].date = new_incident.date}
      unchanged == [raised |-> FALSE, result |-> FALSE, asked |-> FALSE,
                    incidents |-> existing_incidents]
  IN  IF \E i \in same_date :
           UrlsOf(existing_incidents[i]) \cap UrlsOf(new_incident) # {}
        THEN [unchanged EXCEPT !.result = TRUE]
      ELSE IF same_date = {}
        THEN unchanged
      ELSE IF response = "API_ERROR"
        THEN [unchanged EXCEPT !.raised = TRUE, !.asked = TRUE]
      ELSE IF StripLower(response) = "true"
        THEN [raised |-> FALSE, result |-> TRUE, asked |-> TRUE,
              incidents |->
                [i \in DOMAIN existing_incidents |->
                   IF i \in same_date
                     THEN MergeSources(existing_incidents[i], new_incident)
                     ELSE existing_incidents[i]]]
      ELSE [unchanged EXCEPT !.asked = TRUE]

\* is_duplicate(new_incident, existing_incidents) with the comparison model
\* answering `response`: whether it raised, what it returned, whether the model
\* was called, and existing_incidents as the call leaves it
IsDuplicate(new_incident, existing_incidents, response) ==
  LET same_date == {i \in DOMAIN existing_incidents :
                      existing_incidents[i].date = new_incident.date}
      unchanged == [raised |-> FALSE, result |-> FALSE, asked |-> FALSE,
                    incidents |-> existing_incidents]
  IN  IF \E i \in DOMAIN existing_incidents :
           UrlsOf(existing_incidents[i]) \cap UrlsOf(new_incident) # {}
        THEN [unchanged EXCEPT !.result = TRUE]
      ELSE IF same_date = {}
        THEN unchanged
      ELSE IF response = "API_ERROR"
        THEN [unchanged EXCEPT !.raised = TRUE, !.asked = TRUE]
      ELSE IF StripLower(response) = "true"
        THEN [raised |-> FALSE, result |-> TRUE, asked |-> TRUE,
              incidents |->
                [i \in DOMAIN existing_incidents |->
                   IF i \in same_date
                     THEN MergeSources(existing_incidents[i], new_incident)
                     ELSE existing_incidents[i]]]
      ELSE [unchanged EXCEPT !.asked = TRUE]

\* the ledger document {incidents, lastUpdated}
LedgerDoc(incidents, stamp) == [incidents |-> incidents, lastUpdated |-> stamp]

\* how far the GitHub API lets create_pull_request get
PROutcomes == {"ref_failed", "branch_failed", "put_failed", "pr_failed", "created"}

NoPR == [branch |-> FALSE, commit |-> <<>>, pull |-> <<>>]

\* create_pull_request(new_incidents): len() of its argument is the count it
\* reports, the file on disk is the content it commits
CreatePullRequest(new_incidents, cred, outcome, disk) ==
  LET count == Cardinality(DOMAIN new_incidents)
  IN  IF ~cred \/ outcome = "ref_failed" THEN NoPR
      ELSE IF outcome = "branch_failed" THEN NoPR
      ELSE IF outcome = "put_failed" THEN [NoPR EXCEPT !.branch = TRUE]
      ELSE [branch |-> TRUE,
            commit |-> <<[count |-> count, content |-> disk]>>,
            pull |-> IF outcome = "created" THEN <<count>> ELSE <<>>]

\* ---------------------------------------------------------------- feeds
\* a feed entry: its link, and whether its title/description holds a keyword
\* ("missing": the entry has no title attribute)
FeedURLs == {"u2", "u3"}

Entries ==
  {[link |-> u, title |-> "keyword"] : u \in FeedURLs}
  \cup {[link |-> "u2", title |-> t] : t \in {"other", "missing"}}

\* what requests.get(source['feed']) + feedparser.parse give for one feed
FeedResults ==
  {[status |-> s, entries |-> <<>>] : s \in {"request_error", "bozo"}}
  \cup {[status |-> "ok", entries |-> es] : es \in SeqsUpTo(Entries, MaxEntries)}

\* the ledgers the runs of main start from
InitLedgers ==
  LET r1 == Incident("2025-01-01", "Hasselbachplatz", "desc", "physical_attack", <<"u1">>)
      r2 == Incident("2025-01-01", "Neustadt", "desc", "physical_attack", <<"u2">>)
  IN  {<<>>, <<r1>>, <<r1, r2>>}

\* the answers of the extraction model in the runs of main
MainAnswers ==
  {a \in ExtractAnswers :
     a.kind = "json" => a.obj.sources = <<>>}

Unasked == "unasked"
NoAnswer == [kind |-> Unasked, obj |-> NoObject]
EmptyDoc == LedgerDoc(<<>>, 0)

\* ---------------------------------------------------------------- state
VARIABLES
  apiKey,            \* os.environ["OPENAI_API_KEY"]: "missing", "malformed", "sk-key"
  ghCred,            \* GITHUB_REPOSITORY and GITHUB_TOKEN are both set
  file,              \* data/incidents.json on disk
  feeds,             \* feed -> <<>> (not yet fetched) or <<its FeedResult>>
  fetchAns,          \* url -> how fetching that article ends
  extractAns,        \* url -> the extraction model's answer for that article
  cmpAns,            \* url -> the comparison model's reply for that article
  pc,                \* position of main / of the is_duplicate call
  run,               \* which run of the script this is
  src,               \* index of the feed being processed
  idx,               \* index of the entry being processed
  current_data,      \* main: current_data
  new_incidents,     \* main: new_incidents
  articles_checked,  \* main: articles_checked
  keywords_matched,  \* main: keywords_matched
  link,              \* entry.link of the article last handed to parse_with_llm
  incident,          \* what parse_with_llm last returned: <<>> or <<incident>>
  pr,                \* what create_pull_request did on GitHub in this run
  log,               \* the is_duplicate calls of this run, in order
  handled,           \* <<feed, entry>> pairs whose loop iteration began
  feedFetches,       \* feed requests made in this run
  modelCalls         \* model calls made in this run

vars == <<apiKey, ghCred, file, feeds, fetchAns, extractAns, cmpAns, pc, run,
          src, idx, current_data, new_incidents, articles_checked,
          keywords_matched, link, incident, pr, log, handled, feedFetches,
          modelCalls>>

env == <<apiKey, ghCred, file>>
memo == <<fetchAns, extractAns, cmpAns>>
counters == <<articles_checked, keywords_matched>>

\* one record of the log: the call's arguments and what it did
DupCall(new_incident, existing_incidents, d) ==
  [incident |-> new_incident, before |-> existing_incidents,
   after |-> d.incidents, raised |-> d.raised, result |-> d.result,
   asked |-> d.asked]

Init ==
  /\ apiKey \in {"missing", "malformed", "sk-key"}
  /\ ghCred \in BOOLEAN
  /\ file \in {LedgerDoc(l, 0) : l \in InitLedgers}
  /\ feeds = [f \in 1..NumFeeds |-> <<>>]
  /\ fetchAns = [u \in URLs |-> Unasked]
  /\ extractAns = [u \in URLs |-> NoAnswer]
  /\ cmpAns = [u \in URLs |-> Unasked]
  /\ pc = "start"
  /\ run = 1
  /\ src = 1
  /\ idx = 1
  /\ current_data = EmptyDoc
  /\ new_incidents = <<>>
  /\ articles_checked = 0
  /\ keywords_matched = 0
  /\ link = "u1"
  /\ incident = <<>>
  /\ pr = NoPR
  /\ log = <<>>
  /\ handled = {}
  /\ feedFetches = 0
  /\ modelCalls = 0

\* ---------------------------------------------------------------- main
\* lines 345-352: the API key is missing or does not start with "sk-"
StartAbort ==
  /\ pc = "start"
  /\ apiKey # "sk-key"
  /\ pc' = "aborted"
  /\ UNCHANGED <<env, feeds, memo, run, src, idx, current_data, new_incidents,
                 counters, link, incident, pr, log, handled, feedFetches,
                 modelCalls>>

\* lines 354-359: load_current_incidents and the counters
StartLoad ==
  /\ pc = "start"
  /\ apiKey = "sk-key"
  /\ current_data' = file
  /\ new_incidents' = <<>>
  /\ articles_checked' = 0
  /\ keywords_matched' = 0
  /\ src' = 1
  /\ idx' = 1
  /\ pc' = "feed"
  /\ UNCHANGED <<env, feeds, memo, run, link, incident, pr, log, handled,
                 feedFetches, modelCalls>>

\* the for loop over SOURCES moves on to the next feed, or ends
NextFeed ==
  /\ src' = src + 1
  /\ idx' = 1
  /\ pc' = IF src + 1 > NumFeeds THEN "summary" ELSE "feed"

\* the for loop over feed.entries moves on to the next entry, or ends
NextEntry ==
  IF idx + 1 > Len(feeds[src][1].entries)
    THEN NextFeed
    ELSE src' = src /\ idx' = idx + 1 /\ pc' = "entries"

\* lines 361-372 and 400-402: one feed is requested and parsed
FetchFeed ==
  /\ pc = "feed"
  /\ \E f \in FeedResults :
       /\ feeds[src] = <<>> \/ feeds[src] = <<f>>
       /\ feeds' = [feeds EXCEPT ![src] = <<f>>]
       /\ IF f.status = "ok" /\ f.entries # <<>>
            THEN src' = src /\ idx' = 1 /\ pc' = "entries"
            ELSE NextFeed
  /\ feedFetches' = feedFetches + 1
  /\ UNCHANGED <<env, memo, run, current_data, new_incidents, counters, link,
                 incident, pr, log, handled, modelCalls>>

\* lines 374-378 and 400-402: entry.title raises AttributeError outside the
\* inner try, the feed's except clause ends the feed
EntryTitleError ==
  /\ pc = "entries"
  /\ feeds[src][1].entries[idx].title = "missing"
  /\ articles_checked' = articles_checked + 1
  /\ handled' = handled \cup {<<src, idx>>}
  /\ NextFeed
  /\ UNCHANGED <<env, feeds, memo, run, current_data, new_incidents,
                 keywords_matched, link, incident, pr, log, feedFetches,
                 modelCalls>>

\* lines 374-378: no keyword in the entry
EntryNoKeyword ==
  /\ pc = "entries"
  /\ feeds[src][1].entries[idx].title = "other"
  /\ articles_checked' = articles_checked + 1
  /\ handled' = handled \cup {<<src, idx>>}
  /\ NextEntry
  /\ UNCHANGED <<env, feeds, memo, run, current_data, new_incidents,
                 keywords_matched, link, incident, pr, log, feedFetches,
                 modelCalls>>

\* lines 380-386: the article cannot be fetched or has no known container
EntryNoText ==
  /\ pc = "entries"
  /\ LET e == feeds[src][1].entries[idx] IN
     /\ e.title = "keyword"
     /\ \E fa \in FetchOutcomes :
          /\ fetchAns[e.link] \in {Unasked, fa}
          /\ ExtractTextFromArticle(fa) = <<>>
          /\ fetchAns' = [fetchAns EXCEPT ![e.link] = fa]
  /\ articles_checked' = articles_checked + 1
  /\ keywords_matched' = keywords_matched + 1
  /\ handled' = handled \cup {<<src, idx>>}
  /\ NextEntry
  /\ UNCHANGED <<env, feeds, extractAns, cmpAns, run, current_data,
                 new_incidents, link, incident, pr, log, feedFetches,
                 modelCalls>>

\* lines 380-398: the article text goes through parse_with_llm and, if an
\* incident comes back, through is_duplicate
EntryProcessed ==
  /\ pc = "entries"
  /\ LET e == feeds[src][1].entries[idx] IN
     /\ e.title = "keyword"
     /\ \E fa \in FetchOutcomes, xa \in MainAnswers, r \in Responses :
          LET parsed == ParseWithLLM(xa, e.link)
              called == ~parsed.raised /\ parsed.incident # <<>>
              d == IF called
                     THEN IsDuplicate(parsed.incident[1],
                                      current_data.incidents, r)
                     ELSE [raised |-> FALSE, result |-> FALSE, asked |-> FALSE,
                           incidents |-> current_data.incidents]
          IN  /\ fetchAns[e.link] \in {Unasked, fa}
              /\ ExtractTextFromArticle(fa) # <<>>
              /\ extractAns[e.link] \in {NoAnswer, xa}
              /\ cmpAns[e.link] \in {Unasked, r}
              /\ fetchAns' = [fetchAns EXCEPT ![e.link] = fa]
              /\ extractAns' = [extractAns EXCEPT ![e.link] = xa]
              /\ cmpAns' = IF d.asked THEN [cmpAns EXCEPT ![e.link] = r]
                                      ELSE cmpAns
              /\ link' = e.link
              /\ incident' = parsed.incident
              /\ current_data' = [current_data EXCEPT !.incidents = d.incidents]
              /\ new_incidents' =
                   IF called /\ ~d.raised /\ ~d.result
                     THEN Append(new_incidents, parsed.incident[1])
                     ELSE new_incidents
              /\ log' = IF called
                          THEN Append(log, DupCall(parsed.incident[1],
                                                   current_data.incidents, d))
                          ELSE log
              /\ modelCalls' = modelCalls + 1 + (IF d.asked THEN 1 ELSE 0)
  /\ articles_checked' = articles_checked + 1
  /\ keywords_matched' = keywords_matched + 1
  /\ handled' = handled \cup {<<src, idx>>}
  /\ NextEntry
  /\ UNCHANGED <<env, feeds, run, pr, feedFetches>>

\* lines 404-407 and 414-417: nothing new, no pull request
SummaryNothing ==
  /\ pc = "summary"
  /\ new_incidents = <<>>
  /\ pc' = "done"
  /\ UNCHANGED <<env, feeds, memo, run, src, idx, current_data, new_incidents,
                 counters, link, incident, pr, log, handled, feedFetches,
                 modelCalls>>

\* lines 404-413: the new incidents are appended and create_pull_request runs
SummaryPropose ==
  /\ pc = "summary"
  /\ new_incidents # <<>>
  /\ current_data' = LedgerDoc(current_data.incidents \o new_incidents, run)
  /\ \E o \in PROutcomes :
       pr' = CreatePullRequest(current_data', ghCred, o, file)
  /\ pc' = "done"
  /\ UNCHANGED <<env, feeds, memo, run, src, idx, new_incidents, counters,
                 link, incident, log, handled, feedFetches, modelCalls>>

\* lines 419-420: the script is started again; the feeds, the articles, the
\* models' answers and the file on disk are what they were
Rerun ==
  /\ pc \in {"done", "aborted"}
  /\ run < MaxRuns
  /\ run' = run + 1
  /\ pc' = "start"
  /\ src' = 1
  /\ idx' = 1
  /\ current_data' = EmptyDoc
  /\ new_incidents' = <<>>
  /\ articles_checked' = 0
  /\ keywords_matched' = 0
  /\ link' = "u1"
  /\ incident' = <<>>
  /\ pr' = NoPR
  /\ log' = <<>>
  /\ handled' = {}
  /\ feedFetches' = 0
  /\ modelCalls' = 0
  /\ UNCHANGED <<env, feeds, memo>>

Next ==
  \/ StartAbort
  \/ StartLoad
  \/ FetchFeed
  \/ EntryTitleError
  \/ EntryNoKeyword
  \/ EntryNoText
  \/ EntryProcessed
  \/ SummaryNothing
  \/ SummaryPropose
  \/ Rerun

Spec == Init /\ [][Next]_vars

\* ---------------------------------------------------------------- is_duplicate alone
\* is_duplicate is about to be called with an incident parse_with_llm returned
\* for an article, a ledger from the file and a fixed reply of the comparison
\* model for that article
InitDup ==
  /\ apiKey = "sk-key"
  /\ ghCred = TRUE
  /\ \E l \in Ledgers :
       /\ file = LedgerDoc(l, 0)
       /\ current_data = LedgerDoc(l, 0)
  /\ \E u \in URLs, a \in {x \in ExtractAnswers : x.kind = "json"}, r \in Responses :
       /\ link = u
       /\ incident = ParseWithLLM(a, u).incident
       /\ extractAns = [x \in URLs |-> IF x = u THEN a ELSE NoAnswer]
       /\ cmpAns = [x \in URLs |-> IF x = u THEN r ELSE Unasked]
  /\ feeds = [f \in 1..NumFeeds |-> <<>>]
  /\ fetchAns = [x \in URLs |-> IF x = link THEN "text" ELSE Unasked]
  /\ pc = "call"
  /\ run = 1
  /\ src = 1
  /\ idx = 1
  /\ new_incidents = <<>>
  /\ articles_checked = 0
  /\ keywords_matched = 0
  /\ pr = NoPR
  /\ log = <<>>
  /\ handled = {}
  /\ feedFetches = 0
  /\ modelCalls = 0

\* lines 265-319: the call returns True or False
DupReturns ==
  /\ pc = "call"
  /\ LET d == IsDuplicate(incident[1], current_data.incidents, cmpAns[link]) IN
       /\ ~d.raised
       /\ current_data' = [current_data EXCEPT !.incidents = d.incidents]
       /\ log' = Append(log, DupCall(incident[1], current_data.incidents, d))
       /\ modelCalls' = modelCalls + (IF d.asked THEN 1 ELSE 0)
  /\ pc' = "returned"
  /\ UNCHANGED <<env, feeds, memo, run, src, idx, new_incidents, counters,
                 link, incident, pr, handled, feedFetches>>

\* lines 298-305: the comparison model call raises
DupRaises ==
  /\ pc = "call"
  /\ LET d == IsDuplicate(incident[1], current_data.incidents, cmpAns[link]) IN
       /\ d.raised
       /\ current_data' = [current_data EXCEPT !.incidents = d.incidents]
       /\ log' = Append(log, DupCall(incident[1], current_data.incidents, d))
       /\ modelCalls' = modelCalls + (IF d.asked THEN 1 ELSE 0)
  /\ pc' = "raised"
  /\ UNCHANGED <<env, feeds, memo, run, src, idx, new_incidents, counters,
                 link, incident, pr, handled, feedFetches>>

NextDup == DupReturns \/ DupRaises

SpecDup == InitDup /\ [][NextDup]_vars

\* ---------------------------------------------------------------- claims
\* some source URL of the call's incident is in a record of the ledger it got
Overlaps(c) ==
  \E i \in DOMAIN c.before : UrlsOf(c.before[i]) \cap UrlsOf(c.incident) # {}

\* the records of the call's ledger with the incident's date
SameDate(c) == {i \in DOMAIN c.before : c.before[i].date = c.incident.date}

\* two records describe the same event
SameEvent(a, b) ==
  /\ a.date = b.date
  /\ a.location = b.location
  /\ a.description = b.description
  /\ a.type = b.type

\* C1: a candidate with a source URL that is already in the ledger is
\* classified DUPLICATE, and the comparison model is not called for it,
\* whatever that model would have replied and whatever the candidate's date.
C1_ExactCitationIsDuplicate ==
  \A k \in DOMAIN log :
    Overlaps(log[k]) =>
      /\ log[k].result
      /\ ~log[k].raised
      /\ ~log[k].asked

\* C1 witness: a call returned DUPLICATE for a candidate that shares a URL with
\* a ledger record, has a same-date record in the ledger that does not share
\* one, and for which the comparison model would have replied "false".
C1_Witness ==
  /\ pc = "returned"
  /\ log # <<>>
  /\ Overlaps(log[1])
  /\ log[1].result
  /\ cmpAns[link] = "false"
  /\ \E i \in SameDate(log[1]) :
       UrlsOf(log[1].before[i]) \cap UrlsOf(log[1].incident) = {}
  /\ \E i \in DOMAIN log[1].before :
       /\ UrlsOf(log[1].before[i]) \cap UrlsOf(log[1].incident) # {}
       /\ log[1].before[i].date # log[1].incident.date

\* C2: when the same-date comparison classifies a candidate DUPLICATE, only
\* the first same-date record changes, and only by gaining the candidate's
\* URLs it lacked; every other record is left as it was.
C2_OnlyMatchedRecordChanges ==
  \A k \in DOMAIN log :
    (log[k].asked /\ log[k].result) =>
      LET c == log[k]
          first == CHOOSE i \in SameDate(c) : \A j \in SameDate(c) : i <= j
      IN  /\ DOMAIN c.after = DOMAIN c.before
          /\ \A i \in DOMAIN c.before :
               IF i = first
                 THEN c.after[i] = MergeSources(c.before[i], c.incident)
                 ELSE c.after[i] = c.before[i]

\* C3: no two records of the ledger share a source URL, at any point of a run
\* that started from a ledger file in which none do.
C3_NoSharedCitation ==
  NoSharedURL(file.incidents) => NoSharedURL(current_data.incidents)

\* C4: of two articles of one run with different URLs that describe the same
\* event, an event not yet in the ledger file, the first is NEW, the second is
\* DUPLICATE, and the final ledger holds one record of the event with the
\* citations of both.
C4_SecondArticleIsDuplicate ==
  pc = "done" =>
    \A i, j \in DOMAIN log :
      ( /\ i < j
        /\ SameEvent(log[i].incident, log[j].incident)
        /\ UrlsOf(log[i].incident) \cap UrlsOf(log[j].incident) = {}
        /\ \A n \in DOMAIN file.incidents :
             ~SameEvent(file.incidents[n], log[i].incident)
        /\ ~log[i].raised /\ ~log[i].result /\ ~log[j].raised )
      => /\ log[j].result
         /\ Cardinality({n \in DOMAIN current_data.incidents :
                           SameEvent(current_data.incidents[n], log[i].incident)}) = 1
         /\ \E n \in DOMAIN current_data.incidents :
              /\ SameEvent(current_data.incidents[n], log[i].incident)
              /\ UrlsOf(log[i].incident) \cup UrlsOf(log[j].incident)
                   \subseteq UrlsOf(current_data.incidents[n])

\* C5: a candidate whose comparison model call failed is classified NEW: it
\* is among the run's new incidents.
C5_FailedComparisonIsNew ==
  \A k \in DOMAIN log :
    log[k].raised => log[k].incident \in Range(new_incidents)

\* C6: when a run has new incidents and commits a proposal, the committed
\* file content holds every new incident and the count reported in the commit
\* message and the pull request title is the number of new incidents.
C6_ProposalCarriesNewIncidents ==
  (pc = "done" /\ new_incidents # <<>> /\ pr.commit # <<>>) =>
    /\ Range(new_incidents) \subseteq Range(pr.commit[1].content.incidents)
    /\ pr.commit[1].count = Len(new_incidents)
    /\ pr.pull # <<>> => pr.pull[1] = Len(new_incidents)

\* C7: the second run on the same feeds, the same articles, the same model
\* answers and the same ledger classifies nothing NEW.
C7_SecondRunAddsNothing ==
  (run = 2 /\ pc = "done") => new_incidents = <<>>

\* C8: when the run reaches its summary, the loop iteration of every entry of
\* every feed that was parsed has begun: no entry was left out because
\* another entry failed.
C8_EveryEntryHandled ==
  pc \in {"summary", "done"} =>
    \A f \in 1..NumFeeds :
      feeds[f] # <<>> =>
        \A i \in DOMAIN feeds[f][1].entries : <<f, i>> \in handled

\* C9: with a credential missing (the API key, or the repository/token of the
\* pull request) no feed is fetched, no model is called and nothing is
\* proposed.
C9_NoWorkWithoutCredentials ==
  (apiKey # "sk-key" \/ ~ghCred) =>
    /\ feedFetches = 0
    /\ modelCalls = 0
    /\ pr = NoPR

\* C10: after is_duplicate returned True, every source URL of the candidate
\* is in the ledger record it was matched against (a record sharing a URL
\* with it, or a same-date record of the comparison).
C10_SourcesAbsorbed ==
  \A k \in DOMAIN log :
    log[k].result =>
      \E i \in DOMAIN log[k].after :
        /\ \/ UrlsOf(log[k].before[i]) \cap UrlsOf(log[k].incident) # {}
           \/ log[k].asked /\ i \in SameDate(log[k])
        /\ UrlsOf(log[k].incident) \subseteq UrlsOf(log[k].after[i])
====
